---- MODULE Spec2Model ----
(***************************************************************************)
(* Verification model of the tender-engine retrieval-and-match pipeline.   *)
(*                                                                         *)
(*   - llm/azure_recommender_llm.py : AzureRecommenderLLM                  *)
(*   - llm/recommender_llm.py       : RecommenderLLM (local stack)         *)
(*   - vectorstore/cosmos_vector_store.py : CosmosDBVectorStore            *)
(*   - vectorstore/chromadb_store.py      : ChromaDBStore                  *)
(*   - utils/firecrawl_wrapper.py         : FirecrawlWrapper               *)
(*   - utils/tender_crawler.py            : TenderAPIWrapper               *)
(*                                                                         *)
(* Specifications:                                                         *)
(*   SpecParse  the two response parsers on every text                     *)
(*   Spec       the recommendation requests                                *)
(*   SpecStore  add, lookup and similarity search on either store          *)
(*   SpecText   the text embedded for a record and the query text built    *)
(*              from it                                                    *)
(*   SpecBoot   construction of ChromaDBStore                              *)
(*   SpecConc   two concurrent adds on either store                        *)
(*   SpecPoll   the Firecrawl polling loops                                *)
(*   SpecCrawl  TenderAPIWrapper.search_tenders                            *)
(*                                                                         *)
(* Scores are integers in tenths: 0.3 is 3, 0.5 is 5, 1.7 is 17.           *)
(*                                                                         *)
(* Text is modelled as a sequence of lexical items.  An item is a brace, a *)
(* newline, a run of prose, the label "Match score:", a bare number, or an *)
(* object member `"key": value`.  The separators between members (commas,  *)
(* blanks) are not items: a run of members between "{" and "}" is a        *)
(* well-formed JSON object, anything else between them is not.             *)
(***************************************************************************)
EXTENDS Integers, Sequences, FiniteSets, TLC

VARIABLES
    response,        \* parser input: the raw LLM response (text or None)
    parsed,          \* parser output
    ppc,             \* which parser has run: "input", "azure", "local", "unused"
    pc,              \* position of the recommendation request
    req,             \* the request's arguments
    candidates,      \* the retrieved candidates
    idx,             \* number of loop iterations done
    recommendations, \* the list built by the loop
    result,          \* the returned list
    raised,          \* the request ended by raising
    tenders,         \* local stack: the tenders the query returned, before any filter
    calls,           \* completion calls the request has issued
    backend,         \* which vector store the store operations run against
    store,           \* the container (collection) in use and its records: id -> record
    sop,             \* the last store operation and its outcome
    callers,         \* concurrent callers of add: each one's position and document
    built,           \* a record with its index-time and its query-time text
    boot,            \* ChromaDBStore construction: client and collections
    poll,            \* a Firecrawl polling loop
    crawl            \* a TenderAPIWrapper and its last search

vars == <<response, parsed, ppc, pc, req, candidates, idx, recommendations, result, raised,
          tenders, calls, backend, store, sop, callers, built, boot, poll, crawl>>

parseVars == <<response, parsed, ppc>>
requestVars == <<pc, req, candidates, idx, recommendations, result, raised, tenders, calls>>
storeVars == <<backend, store, sop>>
auxVars == <<callers, built, boot, poll, crawl>>

(***************************************************************************)
(* Lexical items                                                           *)
(***************************************************************************)
Tok(k, ty, n) == [k |-> k, ty |-> ty, n |-> n]

LBRACE  == Tok("{", "punct", 0)
RBRACE  == Tok("}", "punct", 0)
PROSE   == Tok("text", "punct", 0)
NEWLINE == Tok("newline", "punct", 0)
LABEL   == Tok("Match score:", "punct", 0)
NUMTXT(n) == Tok("number", "punct", n)

\* object members `"key": value`
MS(n)   == Tok("match_score", "num", n)
MSSTR   == Tok("match_score", "str", 0)           \* "match_score": "high"
REASON  == Tok("reasoning", "str", 1)
STRENGTHS  == Tok("key_strengths", "list", 2)
CHALLENGES == Tok("potential_challenges", "list", 2)
RECOMMEND  == Tok("recommendation", "str", 2)
DEEP    == Tok("extra", "deep", 0)                \* "extra": [[[[ ... ]]]] nested past the recursion limit

MemberTypes == {"num", "str", "null", "list"}
IsMember(t) == t.ty \in MemberTypes \/ t.ty = "deep"

(***************************************************************************)
(* Python values                                                           *)
(***************************************************************************)
Val(ty, n, txt) == [ty |-> ty, n |-> n, txt |-> txt]
Absent   == Val("absent", 0, <<>>)
Num(n)   == Val("num", n, <<>>)
Str(n)   == Val("str", n, <<>>)
RawText(txt) == Val("str", 0, txt)
EmptyList == Val("list", 0, <<>>)
ValueOf(t) == Val(t.ty, t.n, <<>>)

NoneText == [isNone |-> TRUE, text |-> <<>>]
Text(s)  == [isNone |-> FALSE, text |-> s]

Analysis(ms, rs, ks, pch, rec) ==
    [match_score |-> ms, reasoning |-> rs, key_strengths |-> ks,
     potential_challenges |-> pch, recommendation |-> rec]

NoAnalysis == Analysis(Absent, Absent, Absent, Absent, Absent)
ReturnNone == [kind |-> "None", a |-> NoAnalysis]
Return(a)  == [kind |-> "analysis", a |-> a]

(***************************************************************************)
(* str.find / str.rfind / slicing, 0-based as in Python                    *)
(***************************************************************************)
Min(a, b) == IF a < b THEN a ELSE b

Find(s, t) ==
    IF \E i \in 1..Len(s) : s[i] = t
    THEN (CHOOSE i \in 1..Len(s) : s[i] = t /\ \A j \in 1..(i-1) : s[j] # t) - 1
    ELSE -1

RFind(s, t) ==
    IF \E i \in 1..Len(s) : s[i] = t
    THEN (CHOOSE i \in 1..Len(s) : s[i] = t /\ \A j \in (i+1)..Len(s) : s[j] # t) - 1
    ELSE -1

Contains(s, t) == \E i \in 1..Len(s) : s[i] = t

\* s[a:b] for 0 <= a, 0 <= b
Slice(s, a, b) == SubSeq(s, a + 1, Min(b, Len(s)))

(***************************************************************************)
(* json.loads on a slice                                                   *)
(***************************************************************************)
\* first position in 2..Len(s)-1 holding something that is no plain member
FirstBad(s) ==
    LET bad == {i \in 2..(Len(s) - 1) : s[i].ty \notin MemberTypes}
    IN  IF bad = {} THEN 0 ELSE CHOOSE i \in bad : \A j \in bad : i <= j

JsonLoads(s) ==
    IF Len(s) < 2 \/ s[1] # LBRACE \/ s[Len(s)] # RBRACE THEN "JSONDecodeError"
    ELSE IF FirstBad(s) = 0 THEN "ok"
    ELSE IF s[FirstBad(s)].ty = "deep" THEN "RecursionError"
    ELSE "JSONDecodeError"

\* key in dict / dict.get(key): the last member of that key wins
HasKey(s, key) == \E i \in 2..(Len(s) - 1) : s[i].k = key

GetKey(s, key) ==
    IF HasKey(s, key)
    THEN ValueOf(s[CHOOSE i \in 2..(Len(s) - 1) :
                     s[i].k = key /\ \A j \in (i+1)..(Len(s) - 1) : s[j].k # key])
    ELSE Absent

\* the dict json.loads returns, read field by field
ParsedDict(s) ==
    Analysis(GetKey(s, "match_score"), GetKey(s, "reasoning"), GetKey(s, "key_strengths"),
             GetKey(s, "potential_challenges"), GetKey(s, "recommendation"))

(***************************************************************************)
(* AzureRecommenderLLM._parse_analysis_response                            *)
(***************************************************************************)
FallbackScore == 5
FallbackRecommendation == Str(9)    \* 'Analysis available in reasoning field'

FallbackAnalysis(text) ==
    Analysis(Num(FallbackScore), RawText(text), EmptyList, EmptyList, FallbackRecommendation)

\* faulty variant: a JSON decode error yields no analysis, as in the local parser
ParseAnalysisResponse_NoFallback(r) ==
    IF r.isNone THEN ReturnNone
    ELSE LET start_idx == Find(r.text, LBRACE)
             end_idx   == RFind(r.text, RBRACE) + 1
         IN  IF start_idx >= 0 /\ end_idx > start_idx
             THEN LET json_str == Slice(r.text, start_idx, end_idx)
                  IN  IF JsonLoads(json_str) = "ok"
                      THEN IF HasKey(json_str, "match_score") /\ HasKey(json_str, "reasoning")
                           THEN Return(ParsedDict(json_str))
                           ELSE Return(FallbackAnalysis(r.text))
                      ELSE ReturnNone
             ELSE Return(FallbackAnalysis(r.text))

ParseAnalysisResponse(r) ==
    IF r.isNone THEN ReturnNone                         \* None.find: AttributeError, l.338
    ELSE LET start_idx == Find(r.text, LBRACE)
             end_idx   == RFind(r.text, RBRACE) + 1
         IN  IF start_idx >= 0 /\ end_idx > start_idx
             THEN LET json_str == Slice(r.text, start_idx, end_idx)
                      loaded   == JsonLoads(json_str)
                  IN  IF loaded = "ok"
                      THEN IF HasKey(json_str, "match_score") /\ HasKey(json_str, "reasoning")
                           THEN Return(ParsedDict(json_str))
                           ELSE Return(FallbackAnalysis(r.text))
                      ELSE IF loaded = "JSONDecodeError"
                      THEN Return(FallbackAnalysis(r.text))          \* l.329
                      ELSE ReturnNone                                \* l.338
             ELSE Return(FallbackAnalysis(r.text))

(***************************************************************************)
(* RecommenderLLM._parse_llm_response                                      *)
(***************************************************************************)
LocalDefaultScore == 0

\* float(v): a number converts, "high", null and a list raise
FloatOk(v) == v.ty = "num"

\* response.split("\n")
RECURSIVE SplitLines(_)
SplitLines(s) ==
    LET nl == Find(s, NEWLINE)
    IN  IF nl < 0 THEN <<s>>
        ELSE <<Slice(s, 0, nl)>> \o SplitLines(Slice(s, nl + 1, Len(s)))

HasColon(t) == t = LABEL \/ IsMember(t)

\* float(line.split(":")[-1].strip()) for a line holding the label:
\* -1 when it raises ValueError, else the number
LineScore(line) ==
    LET last == CHOOSE i \in 1..Len(line) :
                    HasColon(line[i]) /\ \A j \in (i+1)..Len(line) : ~HasColon(line[j])
    IN  IF line[last] = LABEL
        THEN IF Len(line) = last + 1 /\ line[last + 1].k = "number"
             THEN line[last + 1].n ELSE -1
        ELSE IF Len(line) = last /\ line[last].ty = "num"
             THEN line[last].n ELSE -1

\* the loop over the lines: the first labelled line whose number converts
RECURSIVE ScanLines(_)
ScanLines(lines) ==
    IF lines = <<>> THEN LocalDefaultScore
    ELSE IF Contains(Head(lines), LABEL) /\ LineScore(Head(lines)) >= 0
    THEN LineScore(Head(lines))
    ELSE ScanLines(Tail(lines))

LocalAnalysis(ms, rs) == Analysis(ms, rs, Absent, Absent, Absent)

\* data.get("match_score", 0), data.get("reasoning", "")
GetOr(s, key, default) == IF HasKey(s, key) THEN GetKey(s, key) ELSE default

\* faulty variant: the local parser with the Azure parser's 0.5 fallback
ParseLlmResponse_Fallback(r) ==
    IF r.isNone THEN ReturnNone
    ELSE IF Contains(r.text, LBRACE) /\ Contains(r.text, RBRACE)
    THEN LET json_str == Slice(r.text, Find(r.text, LBRACE), RFind(r.text, RBRACE) + 1)
         IN  IF JsonLoads(json_str) = "ok" /\ HasKey(json_str, "match_score")
                /\ HasKey(json_str, "reasoning") /\ FloatOk(GetKey(json_str, "match_score"))
             THEN Return(LocalAnalysis(GetKey(json_str, "match_score"), GetKey(json_str, "reasoning")))
             ELSE Return(LocalAnalysis(Num(FallbackScore), RawText(r.text)))
    ELSE Return(LocalAnalysis(Num(FallbackScore), RawText(r.text)))

ParseLlmResponse(r) ==
    IF r.isNone THEN ReturnNone                          \* "{" in None: TypeError, l.209
    ELSE IF Contains(r.text, LBRACE) /\ Contains(r.text, RBRACE)
    THEN LET json_start == Find(r.text, LBRACE)
             json_end   == RFind(r.text, RBRACE) + 1
             json_str   == Slice(r.text, json_start, json_end)
         IN  IF JsonLoads(json_str) # "ok" THEN ReturnNone
             ELSE LET ms == GetOr(json_str, "match_score", Num(0))
                  IN  IF ~FloatOk(ms) THEN ReturnNone
                      ELSE Return(LocalAnalysis(ms, GetOr(json_str, "reasoning", Str(0))))
    ELSE Return(LocalAnalysis(Num(ScanLines(SplitLines(r.text))), RawText(r.text)))

(***************************************************************************)
(* Vector store records                                                    *)
(*                                                                         *)
(* Both stores keep, per container (collection) and id, at most one record:*)
(* the Cosmos containers are partitioned by /id, a ChromaDB collection is  *)
(* keyed by id.  The tender and the company operations are the same code   *)
(* on two containers that never touch each other: the state holds one of   *)
(* them.  A record holds the data it was added with and its embedding.  An *)
(* embedding is the vector the embedding service returns for a text, a     *)
(* vector the caller supplied, or the all-zero vector.                     *)
(***************************************************************************)
Containers == {"tenders", "companies"}
StoreIds == {"t1", "t2"}
IdOrder == <<"t1", "t2">>
Descriptions == {"first text", "second text"}

\* a key the dict does not hold
NoKey == "<no key>"

\* dict.get(key, default)
Get(field, default) == IF field = NoKey THEN default ELSE field

\* tender_data / company_data: the dict as the caller passes it; records
\* carry no 'id' key unless WithId puts one in
Data(title, description) == [id |-> NoKey, title |-> title, description |-> description]
NoData == Data("", "")
WithId(data, id) == [data EXCEPT !.id = id]
DataKinds == {Data("T", d) : d \in Descriptions} \cup {Data(NoKey, "first text")}

Vec(text) == [kind |-> "embedded", text |-> text]
ZeroVector == [kind |-> "zero", text |-> <<>>]            \* [0.0] * dimension
CallerVector == [kind |-> "caller", text |-> <<>>]        \* embeddings=... argument

\* the stored document: 'data', 'embedding' and the denormalized
\* 'title': tender_data.get('title', '')
Rec(data, embedding) ==
    [present |-> TRUE, data |-> data, embedding |-> embedding, title |-> Get(data.title, "")]
NoRecord == [present |-> FALSE, data |-> NoData, embedding |-> ZeroVector, title |-> ""]

EmptyStore(c) == [container |-> c, items |-> [i \in StoreIds |-> NoRecord]]

\* the record of the last store operation
\* (prior: the data held under the id when the operation began, NoData if none;
\* faulted: the backend call failed or the caller named no embedding source)
StoreOp(op, id, data, prior, embedFailed, faulted, outcome, item, results) ==
    [op |-> op, id |-> id, data |-> data, prior |-> prior, embedFailed |-> embedFailed,
     faulted |-> faulted, outcome |-> outcome, item |-> item, results |-> results]

NoOp == StoreOp("none", "t1", NoData, NoData, FALSE, FALSE, "none", NoData, <<>>)

IdleStore ==
    /\ backend = "none"
    /\ store = EmptyStore("tenders")
    /\ sop = NoOp

\* the parts of the program a specification does not exercise
Unused == [pc |-> "unused"]

IdleAux ==
    /\ callers = Unused
    /\ built = Unused
    /\ boot = Unused
    /\ poll = Unused
    /\ crawl = Unused

(***************************************************************************)
(* Parser specification: every text up to MaxLen items, and None           *)
(***************************************************************************)
MaxLen == 4

Alphabet == {LBRACE, RBRACE, PROSE, NEWLINE, LABEL, NUMTXT(8),
             MS(8), MS(17), MSSTR, REASON, STRENGTHS, DEEP}

Texts == UNION {[1..n -> Alphabet] : n \in 0..MaxLen}

IdleRequest ==
    /\ pc = "idle"
    /\ req = [kind |-> "none", max |-> 0, min_score |-> 0, sort_by |-> "Match Score",
              filter_expired |-> FALSE]
    /\ candidates = <<>>
    /\ idx = 0
    /\ recommendations = <<>>
    /\ result = <<>>
    /\ raised = FALSE
    /\ tenders = <<>>
    /\ calls = 0

InitParse ==
    /\ response \in {NoneText} \cup {Text(s) : s \in Texts}
    /\ parsed = ReturnNone
    /\ ppc = "input"
    /\ IdleRequest
    /\ IdleStore
    /\ IdleAux

AzureParse ==
    /\ ppc = "input"
    /\ parsed' = ParseAnalysisResponse(response)
    /\ ppc' = "azure"
    /\ UNCHANGED <<response, requestVars, storeVars, auxVars>>

LocalParse ==
    /\ ppc = "input"
    /\ parsed' = ParseLlmResponse(response)
    /\ ppc' = "local"
    /\ UNCHANGED <<response, requestVars, storeVars, auxVars>>

NextParse == AzureParse \/ LocalParse

SpecParse == InitParse /\ [][NextParse]_vars

(***************************************************************************)
(* Candidates and the LLM                                                  *)
(*                                                                         *)
(* A candidate carries the answer the LLM gives when asked about it: the   *)
(* completion call raises, or returns a content (a text, or None).         *)
(***************************************************************************)
MaxRec == 2         \* largest max_recommendations / max_results of a request
MaxStore == 3       \* most records a search returns
MaxTenders == 2     \* most tenders the local tender query returns

Llm(raises, content) == [raises |-> raises, content |-> content]
LlmRaises == Llm(TRUE, NoneText)

NoDeadline    == [ty |-> "absent", t |-> 0]       \* no deadline key, None or ""
BadDeadline   == [ty |-> "malformed", t |-> 0]    \* not an ISO date
Deadline(t)   == [ty |-> "date", t |-> t]         \* days from now

Cand(id, sim, deadline, value, llm) ==
    [id |-> id, sim |-> sim, deadline |-> deadline, value |-> value, llm |-> llm]

Entry(cand, analysis, vector_similarity) ==
    [cand |-> cand, analysis |-> analysis, vector_similarity |-> vector_similarity]

Take(s, n) == SubSeq(s, 1, Min(n, Len(s)))

Score(entry) == entry.analysis.match_score.n

(***************************************************************************)
(* list.sort(key=..., reverse=...): stable in both directions              *)
(***************************************************************************)
\* faulty variant: equal keys end in reverse order (sorted ascending, then reversed)
InsertDesc_Unstable(sorted, x) ==
    LET p == Cardinality({i \in 1..Len(sorted) : sorted[i].key > x.key})
    IN  SubSeq(sorted, 1, p) \o <<x>> \o SubSeq(sorted, p + 1, Len(sorted))

\* faulty variant: ascending order
InsertDesc_Ascending(sorted, x) ==
    LET p == Cardinality({i \in 1..Len(sorted) : sorted[i].key <= x.key})
    IN  SubSeq(sorted, 1, p) \o <<x>> \o SubSeq(sorted, p + 1, Len(sorted))

InsertDesc(sorted, x) ==
    LET p == Cardinality({i \in 1..Len(sorted) : sorted[i].key >= x.key})
    IN  SubSeq(sorted, 1, p) \o <<x>> \o SubSeq(sorted, p + 1, Len(sorted))

InsertAsc(sorted, x) ==
    LET p == Cardinality({i \in 1..Len(sorted) : sorted[i].key <= x.key})
    IN  SubSeq(sorted, 1, p) \o <<x>> \o SubSeq(sorted, p + 1, Len(sorted))

RECURSIVE SortKeyed(_, _)
SortKeyed(keyed, reverse) ==
    IF keyed = <<>> THEN <<>>
    ELSE LET front == SortKeyed(SubSeq(keyed, 1, Len(keyed) - 1), reverse)
             x     == keyed[Len(keyed)]
         IN  IF reverse THEN InsertDesc(front, x) ELSE InsertAsc(front, x)

Unkey(keyed) == [i \in 1..Len(keyed) |-> keyed[i].e]

\* recommendations.sort(key=lambda x: x['analysis']['match_score'], reverse=True)
SortByMatchScore(recs) ==
    Unkey(SortKeyed([i \in 1..Len(recs) |-> [key |-> Score(recs[i]), e |-> recs[i]]], TRUE))

(***************************************************************************)
(* CosmosDBVectorStore.search_tenders / search_companies                   *)
(*                                                                         *)
(* `ranked` is the container's records of the wanted type in the order of  *)
(* ORDER BY VectorDistance(c.embedding, @queryVector): most similar first. *)
(***************************************************************************)
SearchStore(ranked, limit, fails) ==
    IF fails THEN <<>> ELSE Take(ranked, limit)

SimVals == {1, 2}

AzureContents ==
    { Text(<<LBRACE, MS(9), REASON, STRENGTHS, CHALLENGES, RECOMMEND, RBRACE>>),
      Text(<<LBRACE, MS(3), REASON, RBRACE>>),
      Text(<<LBRACE, MS(17), REASON, RBRACE>>),
      Text(<<PROSE>>),
      Text(<<LBRACE, MSSTR, REASON, RBRACE>>),
      NoneText }

AzureLlm == {LlmRaises} \cup {Llm(FALSE, c) : c \in AzureContents}

IsRanked(f) == \A i \in 1..(Len(f) - 1) : f[i][1] >= f[i + 1][1]

RankedStores ==
    { [i \in 1..Len(f) |-> Cand(i, f[i][1], NoDeadline, 0, f[i][2])] :
        f \in {g \in UNION {[1..n -> SimVals \X AzureLlm] : n \in 0..MaxStore} : IsRanked(g)} }

(***************************************************************************)
(* AzureRecommenderLLM._analyze_tender_match / _analyze_company_match      *)
(***************************************************************************)
AnalyzeMatch(cand) ==
    IF cand.llm.raises THEN ReturnNone
    ELSE ParseAnalysisResponse(cand.llm.content)

(***************************************************************************)
(* AzureRecommenderLLM.recommend_tenders_for_company and                   *)
(* recommend_companies_for_tender                                          *)
(***************************************************************************)
RelevanceThreshold == 3
OverFetch == 2

AzureKinds == {"tenders_for_company", "companies_for_tender"}

\* faulty variant: every retrieved candidate is analysed
Analysed_All(cands, max) == cands

\* candidate_tenders[:max_recommendations]
Analysed(cands, max) == Take(cands, max)

\* faulty variant: a score equal to the threshold passes
PassesThreshold_Inclusive(v) == v.n >= RelevanceThreshold

\* analysis.get('match_score', 0) > 0.3 on a number
PassesThreshold(v) == v.n > RelevanceThreshold

\* faulty variant: a candidate without analysis discards what was collected before it
LoopBody_NotIsolated(recs, cand) ==
    LET analysis == AnalyzeMatch(cand)
    IN  IF analysis.kind = "None" THEN <<>>
        ELSE IF analysis.a.match_score.ty # "num" THEN recs
        ELSE IF PassesThreshold(analysis.a.match_score)
        THEN Append(recs, Entry(cand, analysis.a, cand.sim))
        ELSE recs

\* one iteration of the loop, l.62-73 / l.114-125: the list after it
LoopBody(recs, cand) ==
    LET analysis == AnalyzeMatch(cand)
    IN  IF analysis.kind = "None" THEN recs                          \* falsy
        ELSE IF analysis.a.match_score.ty # "num" THEN recs          \* TypeError in >, l.71
        ELSE IF PassesThreshold(analysis.a.match_score)
        THEN Append(recs, Entry(cand, analysis.a, cand.sim))
        ELSE recs

\* faulty variant: a search without candidates is an error
AfterSearch_Raises(found) ==
    IF found = <<>> THEN [pc |-> "done", raised |-> TRUE]
    ELSE [pc |-> "azure_loop", raised |-> FALSE]

\* l.56-58 / l.108-110: `if not candidate_tenders: return []`
AfterSearch(found) ==
    IF found = <<>> THEN [pc |-> "done", raised |-> FALSE]
    ELSE [pc |-> "azure_loop", raised |-> FALSE]

Init ==
    /\ response = NoneText
    /\ parsed = ReturnNone
    /\ ppc = "unused"
    /\ IdleRequest
    /\ IdleStore
    /\ IdleAux

AzureSearch ==
    /\ pc = "idle"
    /\ \E kind \in AzureKinds, max \in 0..MaxRec, ranked \in RankedStores,
          fails \in BOOLEAN, queryRaises \in BOOLEAN :
        \* building the search query may raise (l.48, l.81): the request returns []
        LET found == IF queryRaises THEN <<>> ELSE SearchStore(ranked, max * OverFetch, fails)
        IN  /\ req' = [kind |-> kind, max |-> max, min_score |-> RelevanceThreshold,
                       sort_by |-> "Match Score", filter_expired |-> FALSE]
            /\ candidates' = found
            /\ pc' = AfterSearch(found).pc
            /\ raised' = AfterSearch(found).raised
    /\ UNCHANGED <<idx, recommendations, result, tenders, calls, parseVars, storeVars, auxVars>>

AzureAnalyze ==
    /\ pc = "azure_loop"
    /\ idx < Len(Analysed(candidates, req.max))
    /\ recommendations' = LoopBody(recommendations, Analysed(candidates, req.max)[idx + 1])
    /\ idx' = idx + 1
    /\ calls' = calls + 1                                  \* one chat.completions.create, l.144
    /\ UNCHANGED <<pc, req, candidates, result, raised, tenders, parseVars, storeVars, auxVars>>

AzureReturn ==
    /\ pc = "azure_loop"
    /\ idx >= Len(Analysed(candidates, req.max))
    /\ result' = SortByMatchScore(recommendations)
    /\ pc' = "done"
    /\ UNCHANGED <<req, candidates, idx, recommendations, raised, tenders, calls,
                   parseVars, storeVars, auxVars>>

(***************************************************************************)
(* RecommenderLLM.get_recommendations (local stack)                        *)
(*                                                                         *)
(* vector_store.query_collection and CompanyAgent.get_profile_summary are  *)
(* called here and defined nowhere under src/: the company lookup and the  *)
(* tender query are inputs of the request.  TENDER_RECOMMENDATION_PROMPT   *)
(* is read as the template of utils/config.py l.120, which                 *)
(* recommender_llm.py uses without importing it.                           *)
(***************************************************************************)
MinScoreDefault == 6
current_date == 0

SortModes == {"Match Score", "Deadline", "Value", "Relevance"}
MinScores == {RelevanceThreshold, MinScoreDefault}

LocalJson(n) == Llm(FALSE, Text(<<LBRACE, MS(n), REASON, RBRACE>>))

\* the tenders a query may return: deadline, estimated_value, the LLM's answer
TenderKinds ==
    { Cand(1, 0, Deadline(2),  1, LocalJson(9)),
      Cand(2, 0, Deadline(1),  3, LocalJson(6)),
      Cand(3, 0, Deadline(-1), 2, LocalJson(9)),
      Cand(4, 0, NoDeadline,   0, LocalJson(6)),
      Cand(5, 0, BadDeadline,  1, LocalJson(9)),
      Cand(6, 0, Deadline(1),  2, LlmRaises),
      Cand(7, 0, Deadline(2),  2, Llm(FALSE, Text(<<LBRACE, PROSE, RBRACE>>))),
      Cand(8, 0, Deadline(1),  1, Llm(FALSE, Text(<<PROSE>>))) }

\* query_collection("tenders", company_profile, top_k=50)
QueryTenders == UNION {[1..n -> TenderKinds] : n \in 0..MaxTenders}

\* l.73-78: the tenders kept, or the fact that datetime.fromisoformat raised
ExpiredFilterRaises(ts) ==
    \E i \in 1..Len(ts) : ts[i].deadline.ty = "malformed"

\* faulty variant: any tender with a well-formed deadline is kept
KeepsTender_AnyDate(t) == t.deadline.ty = "date"

\* tender.get("deadline") and datetime.fromisoformat(tender["deadline"]) > current_date
KeepsTender(t) == t.deadline.ty = "date" /\ t.deadline.t > current_date

FilterExpired(ts) == SelectSeq(ts, KeepsTender)

\* _call_llm, then _parse_llm_response
LocalAnalyzeTender(t) ==
    IF t.llm.raises THEN ReturnNone                   \* raised and caught, l.134
    ELSE ParseLlmResponse(t.llm.content)

\* one iteration of _generate_recommendations, l.111-135
GenerateBody(recs, t) ==
    LET analysis == LocalAnalyzeTender(t)
    IN  IF analysis.kind = "None" THEN recs
        ELSE Append(recs, Entry(t, analysis.a, 0))

\* faulty variant: a score equal to min_score is dropped
FilterMinScore_Strict(recs, min_score) ==
    SelectSeq(recs, LAMBDA r : Score(r) > min_score)

\* l.84
FilterMinScore(recs, min_score) ==
    SelectSeq(recs, LAMBDA r : Score(r) >= min_score)

\* l.90: the key raises on a tender whose deadline is missing or malformed
SortByDeadlineRaises(recs) ==
    \E i \in 1..Len(recs) : recs[i].cand.deadline.ty # "date"

SortByDeadline(recs) ==
    Unkey(SortKeyed([i \in 1..Len(recs) |-> [key |-> recs[i].cand.deadline.t, e |-> recs[i]]], FALSE))

SortByValue(recs) ==
    Unkey(SortKeyed([i \in 1..Len(recs) |-> [key |-> recs[i].cand.value, e |-> recs[i]]], TRUE))

\* l.87-92
SortRecommendations(recs, sort_by) ==
    IF sort_by = "Match Score" THEN SortByMatchScore(recs)
    ELSE IF sort_by = "Deadline" THEN SortByDeadline(recs)
    ELSE IF sort_by = "Value" THEN SortByValue(recs)
    ELSE recs

\* recommendations[:max_results]
Truncate(recs, max_results) == Take(recs, max_results)

LocalQuery ==
    /\ pc = "idle"
    /\ \E max \in 0..MaxRec, min_score \in MinScores, sort_by \in SortModes,
          filter_expired \in BOOLEAN, companyFound \in BOOLEAN, queried \in QueryTenders :
        /\ req' = [kind |-> "local", max |-> max, min_score |-> min_score,
                   sort_by |-> sort_by, filter_expired |-> filter_expired]
        /\ tenders' = IF companyFound THEN queried ELSE <<>>
        /\ IF ~companyFound \/ queried = <<>>
           THEN /\ candidates' = <<>>                                   \* l.54, l.68
                /\ pc' = "done"
                /\ raised' = FALSE
           ELSE IF filter_expired /\ ExpiredFilterRaises(queried)
           THEN /\ candidates' = queried                                \* ValueError, l.77
                /\ pc' = "done"
                /\ raised' = TRUE
           ELSE /\ candidates' = IF filter_expired THEN FilterExpired(queried) ELSE queried
                /\ pc' = "local_loop"
                /\ raised' = FALSE
    /\ UNCHANGED <<idx, recommendations, result, calls, parseVars, storeVars, auxVars>>

LocalGenerate ==
    /\ pc = "local_loop"
    /\ idx < Len(candidates)
    /\ recommendations' = GenerateBody(recommendations, candidates[idx + 1])
    /\ idx' = idx + 1
    /\ calls' = calls + 1                                  \* one requests.post, l.157
    /\ UNCHANGED <<pc, req, candidates, result, raised, tenders, parseVars, storeVars, auxVars>>

LocalReturn ==
    /\ pc = "local_loop"
    /\ idx >= Len(candidates)
    /\ LET kept == FilterMinScore(recommendations, req.min_score)
       IN  IF req.sort_by = "Deadline" /\ SortByDeadlineRaises(kept)
           THEN /\ raised' = TRUE                                       \* KeyError / ValueError, l.90
                /\ result' = <<>>
           ELSE /\ raised' = FALSE
                /\ result' = Truncate(SortRecommendations(kept, req.sort_by), req.max)
    /\ pc' = "done"
    /\ UNCHANGED <<req, candidates, idx, recommendations, tenders, calls, parseVars, storeVars, auxVars>>

Next ==
    \/ AzureSearch
    \/ AzureAnalyze
    \/ AzureReturn
    \/ LocalQuery
    \/ LocalGenerate
    \/ LocalReturn

Spec == Init /\ [][Next]_vars

(***************************************************************************)
(* Embedding text and embedding generation                                 *)
(***************************************************************************)
\* CosmosDBVectorStore._create_tender_embedding_text / _create_company_embedding_text:
\* the labelled parts, joined
CosmosEmbeddingText(data) ==
    (IF data.title = NoKey THEN <<>> ELSE <<"Title", data.title>>)      \* 'title' in tender_data
        \o <<"Description", data.description>>

\* ChromaDBStore.add_tender: f"{title} {description}"
ChromaText(data) == <<Get(data.title, ""), data.description>>

\* CosmosDBVectorStore._generate_embedding: the service's vector, or on any
\* exception the zero vector
GenerateEmbedding(text, fails) == IF fails THEN ZeroVector ELSE Vec(text)

\* ChromaDBStore._get_embedding_safe: the service's vector, or the zero vector
\* when the request fails or the answer holds no embedding
GetEmbeddingSafe(text, fails) == IF fails THEN ZeroVector ELSE Vec(text)

(***************************************************************************)
(* CosmosDBVectorStore.add_tender / add_company                            *)
(*                                                                         *)
(* container.create_item raises when the container already holds an item  *)
(* with that id, and when the write fails.  A record with no 'id' key is   *)
(* stored under a new uuid4, an id the container does not hold; the add is *)
(* taken while the container has an id to spare.                           *)
(***************************************************************************)
\* faulty variant: always a new id
DocumentId_AlwaysFresh(data, fresh) == fresh

\* tender_data.get('id', str(uuid.uuid4()))
DocumentId(data, fresh) == Get(data.id, fresh)

\* faulty variant: an id already held gets the new data written into the old record
CreateItem_FieldWise(items, id, rec, fails) ==
    IF fails THEN [raised |-> TRUE, items |-> items]
    ELSE IF items[id].present
    THEN [raised |-> FALSE, items |-> [items EXCEPT ![id].data = rec.data]]
    ELSE [raised |-> FALSE, items |-> [items EXCEPT ![id] = rec]]

CreateItem(items, id, rec, fails) ==
    IF fails \/ items[id].present
    THEN [raised |-> TRUE, items |-> items]
    ELSE [raised |-> FALSE, items |-> [items EXCEPT ![id] = rec]]

CosmosAdd ==
    /\ backend = "cosmos"
    /\ \E given \in StoreIds \cup {NoKey}, kind \in DataKinds, fresh \in StoreIds,
          embedFails \in BOOLEAN, writeFails \in BOOLEAN :
        LET data      == WithId(kind, given)
            id        == DocumentId(data, fresh)
            embedding == GenerateEmbedding(CosmosEmbeddingText(data), embedFails)
            created   == CreateItem(store.items, id, Rec(data, embedding), writeFails)
        IN  /\ given = NoKey => ~store.items[fresh].present
            /\ store' = [store EXCEPT !.items = created.items]
            /\ sop' = StoreOp("add", id, data, store.items[id].data, embedFails, writeFails,
                              IF created.raised THEN "raised" ELSE "id", NoData, <<>>)
    /\ UNCHANGED <<backend, parseVars, requestVars, auxVars>>

(***************************************************************************)
(* ChromaDBStore.add_tender / add_company_profile                          *)
(*                                                                         *)
(* collection.add of an id the collection already holds does not replace   *)
(* the record: depending on the chromadb release it raises or it ignores   *)
(* the duplicate.                                                          *)
(***************************************************************************)
CollectionAdd(items, id, rec, fails, dupRaises) ==
    IF fails \/ (items[id].present /\ dupRaises)
    THEN [raised |-> TRUE, items |-> items]
    ELSE IF items[id].present
    THEN [raised |-> FALSE, items |-> items]
    ELSE [raised |-> FALSE, items |-> [items EXCEPT ![id] = rec]]

ChromaAdd ==
    /\ backend = "chroma"
    /\ \E id \in StoreIds, data \in DataKinds,
          supplied \in BOOLEAN, sourceGiven \in BOOLEAN,
          embedFails \in BOOLEAN, writeFails \in BOOLEAN, dupRaises \in BOOLEAN :
        IF ~supplied /\ ~sourceGiven
        THEN /\ store' = store                                  \* ValueError, l.116
             /\ sop' = StoreOp("add", id, data, store.items[id].data, FALSE, TRUE, "False", NoData, <<>>)
        ELSE LET embeddings == IF supplied THEN CallerVector
                               ELSE GetEmbeddingSafe(ChromaText(data), embedFails)
                 added == CollectionAdd(store.items, id, Rec(data, embeddings), writeFails, dupRaises)
             IN  /\ store' = [store EXCEPT !.items = added.items]
                 /\ sop' = StoreOp("add", id, data, store.items[id].data, ~supplied /\ embedFails,
                                   writeFails, IF added.raised THEN "False" ELSE "True", NoData, <<>>)
    /\ UNCHANGED <<backend, parseVars, requestVars, auxVars>>

(***************************************************************************)
(* get_tender_by_id / get_company_by_id                                    *)
(***************************************************************************)
\* faulty variant: a missing item raises
ReadItem_Raises(items, id, fails) ==
    IF fails THEN [outcome |-> "None", item |-> NoData]
    ELSE IF items[id].present THEN [outcome |-> "item", item |-> items[id].data]
    ELSE [outcome |-> "raised", item |-> NoData]

\* CosmosDBVectorStore.get_tender_by_id: read_item raises
\* CosmosResourceNotFoundError for a missing id, anything else on failure
ReadItem(items, id, fails) ==
    IF fails THEN [outcome |-> "None", item |-> NoData]                 \* l.282
    ELSE IF items[id].present THEN [outcome |-> "item", item |-> items[id].data]
    ELSE [outcome |-> "None", item |-> NoData]                          \* l.280

\* ChromaDBStore._get_by_id: collection.get returns no ids for a missing id
GetById(items, id, fails) ==
    IF fails THEN [outcome |-> "None", item |-> NoData]                 \* l.214
    ELSE IF items[id].present THEN [outcome |-> "item", item |-> items[id].data]
    ELSE [outcome |-> "None", item |-> NoData]                          \* l.213

CosmosGet ==
    /\ backend = "cosmos"
    /\ \E id \in StoreIds, fails \in BOOLEAN :
        LET got == ReadItem(store.items, id, fails)
        IN  sop' = StoreOp("get", id, NoData, store.items[id].data, FALSE, fails,
                            got.outcome, got.item, <<>>)
    /\ UNCHANGED <<backend, store, parseVars, requestVars, auxVars>>

ChromaGet ==
    /\ backend = "chroma"
    /\ \E id \in StoreIds, fails \in BOOLEAN :
        LET got == GetById(store.items, id, fails)
        IN  sop' = StoreOp("get", id, NoData, store.items[id].data, FALSE, fails,
                            got.outcome, got.item, <<>>)
    /\ UNCHANGED <<backend, store, parseVars, requestVars, auxVars>>

(***************************************************************************)
(* Similarity search                                                       *)
(*                                                                         *)
(* The backend computes the distances; they are inputs here, one per       *)
(* stored id.  collection.query returns the nearest records first, with    *)
(* squared-L2 distances (the collections are created without a distance    *)
(* setting), which are never negative.  The Cosmos query returns           *)
(* VectorDistance, a cosine similarity when the container names no other   *)
(* distance function, most similar first.  Values are in tenths.           *)
(***************************************************************************)
MaxLimit == 2
FullScore == 10                       \* 1.0

DistVals == {0, 4, 10, 15}
CosineVals == {-5, 0, 8}

Hit(id, distance, similarity_score) ==
    [id |-> id, distance |-> distance, similarity_score |-> similarity_score]

\* the ids a container holds, in insertion order
Held(items) == SelectSeq(IdOrder, LAMBDA i : items[i].present)

\* collection.query(query_embeddings, n_results): nearest first
CollectionQuery(items, dist, n_results) ==
    LET held == Held(items)
    IN  Take(Unkey(SortKeyed([k \in 1..Len(held) |-> [key |-> dist[held[k]], e |-> held[k]]],
                             FALSE)), n_results)

\* faulty variant: the clamped distance itself
SimilarityScore_Distance(distance) == Min(distance, FullScore)

\* faulty variant: no clamp
SimilarityScore_Unclamped(distance) == FullScore - distance

\* 1.0 - min(distance, 1.0)
SimilarityScore(distance) == FullScore - Min(distance, FullScore)

\* ChromaDBStore._search_similar
SearchSimilar(items, dist, limit, raises) ==
    IF raises THEN <<>>
    ELSE LET ids == CollectionQuery(items, dist, limit)
         IN  [i \in 1..Len(ids) |-> Hit(ids[i], dist[ids[i]], SimilarityScore(dist[ids[i]]))]

\* ORDER BY VectorDistance(c.embedding, @queryVector) OFFSET 0 LIMIT @limit
QueryItems(items, sim, limit) ==
    LET held == Held(items)
    IN  Take(Unkey(SortKeyed([k \in 1..Len(held) |-> [key |-> sim[held[k]], e |-> held[k]]],
                             TRUE)), limit)

\* CosmosDBVectorStore.search_tenders / search_companies
CosmosSearchItems(items, sim, limit, fails) ==
    LET ids == SearchStore(QueryItems(items, sim, Len(IdOrder)), limit, fails)
    IN  [i \in 1..Len(ids) |-> Hit(ids[i], sim[ids[i]], sim[ids[i]])]

ChromaSearch ==
    /\ backend = "chroma"
    /\ \E limit \in 0..MaxLimit, dist \in [StoreIds -> DistVals], raises \in BOOLEAN :
        sop' = StoreOp("search", "t1", NoData, NoData, FALSE, raises, "list", NoData,
                       SearchSimilar(store.items, dist, limit, raises))
    /\ UNCHANGED <<backend, store, parseVars, requestVars, auxVars>>

CosmosSearch ==
    /\ backend = "cosmos"
    /\ \E limit \in 0..MaxLimit, sim \in [StoreIds -> CosineVals], fails \in BOOLEAN :
        sop' = StoreOp("search", "t1", NoData, NoData, FALSE, fails, "list", NoData,
                       CosmosSearchItems(store.items, sim, limit, fails))
    /\ UNCHANGED <<backend, store, parseVars, requestVars, auxVars>>

(***************************************************************************)
(* Store specification: either store, empty after construction             *)
(***************************************************************************)
InitStore ==
    /\ response = NoneText
    /\ parsed = ReturnNone
    /\ ppc = "unused"
    /\ IdleRequest
    /\ backend \in {"cosmos", "chroma"}
    /\ store \in {EmptyStore(c) : c \in Containers}
    /\ sop = NoOp
    /\ IdleAux

NextStore ==
    \/ CosmosAdd
    \/ ChromaAdd
    \/ CosmosGet
    \/ ChromaGet
    \/ CosmosSearch
    \/ ChromaSearch

SpecStore == InitStore /\ [][NextStore]_vars

(***************************************************************************)
(* Index-time and query-time text                                          *)
(*                                                                         *)
(* A text is the sequence of its words; a label such as "Company:" and the *)
(* separators "|" and "," are words.  A field of a record is absent, a     *)
(* string (its words) or a list of strings.                                *)
(***************************************************************************)
NoField == [has |-> FALSE, isList |-> FALSE, v |-> <<>>]
StrField(words) == [has |-> TRUE, isList |-> FALSE, v |-> words]
ListField(items) == [has |-> TRUE, isList |-> TRUE, v |-> items]

\* `key in data and data[key]`
Truthy(f) == f.has /\ f.v # <<>>

\* data[key] if isinstance(data[key], list) else [data[key]]: the items' words
AsList(f) == f.v

\* sep.join(parts), parts being texts
RECURSIVE Join(_, _)
Join(parts, sep) ==
    IF parts = <<>> THEN <<>>
    ELSE IF Len(parts) = 1 THEN parts[1]
    ELSE parts[1] \o sep \o Join(Tail(parts), sep)

\* ', '.join(items), items being words
RECURSIVE CommaJoin(_)
CommaJoin(items) ==
    IF items = <<>> THEN <<>>
    ELSE IF Len(items) = 1 THEN items
    ELSE <<items[1], ",">> \o CommaJoin(Tail(items))

\* parts.append(f"Label: {value}") when the condition holds
Part(cond, label, words) == IF cond THEN <<(<<label>> \o words)>> ELSE <<>>

\* CosmosDBVectorStore._create_company_embedding_text
CreateCompanyEmbeddingText(c) ==
    Join(Part(c.name.has, "Company:", c.name.v)
           \o Part(c.description.has, "Description:", c.description.v)
           \o Part(Truthy(c.industry), "Industries:", CommaJoin(AsList(c.industry)))
           \o Part(Truthy(c.services), "Services:", CommaJoin(AsList(c.services)))
           \o Part(Truthy(c.expertise), "Expertise:", CommaJoin(AsList(c.expertise)))
           \o Part(c.location.has, "Location:", c.location.v)
           \o Part(c.size.has, "Size:", c.size.v),
         <<"|">>)

\* CosmosDBVectorStore._create_tender_embedding_text
CreateTenderEmbeddingText(t) ==
    Join(Part(t.title.has, "Title:", t.title.v)
           \o Part(t.description.has, "Description:", t.description.v)
           \o Part(Truthy(t.category), "Categories:", CommaJoin(AsList(t.category)))
           \o Part(t.organization.has, "Organization:", t.organization.v)
           \o Part(t.location.has, "Location:", t.location.v)
           \o Part(Truthy(t.estimated_value), "Estimated Value:", t.estimated_value.v),
         <<"|">>)

\* query_parts.extend(...) / append(...) when the key is in the record
Words(cond, words) == IF cond THEN words ELSE <<>>

\* AzureRecommenderLLM._create_company_search_query
CreateCompanySearchQuery(c) ==
    Words(c.industry.has, AsList(c.industry))
      \o Words(c.services.has, AsList(c.services))
      \o Words(c.expertise.has, AsList(c.expertise))
      \o Words(c.location.has, c.location.v)

\* AzureRecommenderLLM._create_tender_search_query (a description of under
\* 100 characters: all its words)
CreateTenderSearchQuery(t) ==
    Words(t.category.has, AsList(t.category))
      \o Words(t.title.has, t.title.v)
      \o Words(t.description.has, t.description.v)

StrVals(w) == {NoField, StrField(<<w>>)}
ListVals(w) == {NoField, ListField(<<>>), ListField(<<w>>)}

CompanyRecords ==
    [name : StrVals("Acme"), description : StrVals("consulting"),
     industry : ListVals("IT") \cup {ListField(<<"IT", "Cloud">>)},
     services : ListVals("hosting"), expertise : {NoField, StrField(<<"security">>)},
     location : StrVals("Bern"), size : StrVals("SME")]

TenderRecords ==
    [title : StrVals("Datacenter"), description : {NoField, StrField(<<"new", "servers">>)},
     category : ListVals("IT") \cup {StrField(<<"IT">>)},
     organization : StrVals("Canton"), location : StrVals("Bern"),
     estimated_value : StrVals("100000")]

Built(pc_, kind, record, index_text, query_text) ==
    [pc |-> pc_, kind |-> kind, record |-> record,
     index_text |-> index_text, query_text |-> query_text]

EmbeddingTextOf(kind, record) ==
    IF kind = "company" THEN CreateCompanyEmbeddingText(record)
    ELSE CreateTenderEmbeddingText(record)

SearchQueryOf(kind, record) ==
    IF kind = "company" THEN CreateCompanySearchQuery(record)
    ELSE CreateTenderSearchQuery(record)

InitText ==
    /\ response = NoneText
    /\ parsed = ReturnNone
    /\ ppc = "unused"
    /\ IdleRequest
    /\ IdleStore
    /\ built \in {Built("record", "company", r, <<>>, <<>>) : r \in CompanyRecords}
                \cup {Built("record", "tender", r, <<>>, <<>>) : r \in TenderRecords}
    /\ callers = Unused
    /\ boot = Unused
    /\ poll = Unused
    /\ crawl = Unused

\* add_company / add_tender builds the text it embeds (l.88, l.136)
IndexRecord ==
    /\ built.pc = "record"
    /\ built' = [built EXCEPT !.pc = "indexed",
                              !.index_text = EmbeddingTextOf(built.kind, built.record)]
    /\ UNCHANGED <<parseVars, requestVars, storeVars, callers, boot, poll, crawl>>

\* recommend_tenders_for_company / recommend_companies_for_tender builds the
\* query from the same record (l.48, l.100)
QueryWithRecord ==
    /\ built.pc = "indexed"
    /\ built' = [built EXCEPT !.pc = "queried",
                              !.query_text = SearchQueryOf(built.kind, built.record)]
    /\ UNCHANGED <<parseVars, requestVars, storeVars, callers, boot, poll, crawl>>

NextText == IndexRecord \/ QueryWithRecord

SpecText == InitText /\ [][NextText]_vars

(***************************************************************************)
(* ChromaDBStore.__init__ and _get_or_create_collection                    *)
(*                                                                         *)
(* Every call that touches the file system or the client may fail; whether *)
(* it does is an input of the step.                                        *)
(***************************************************************************)
MaxRetries == 3                       \* max_retries
CollectionNames == <<"tenders", "companies">>

Boot(pc_, mode, failed, cause, held, retry_count, attempts) ==
    [pc |-> pc_, mode |-> mode, failed |-> failed, cause |-> cause, held |-> held,
     retry_count |-> retry_count, attempts |-> attempts]

\* a collection as _get_or_create_collection returned it: how it was obtained
\* and after how many failed attempts ("none": the loop ended without one)
Collection(name, via, failures) == [name |-> name, via |-> via, failures |-> failures]

InitBoot ==
    /\ response = NoneText
    /\ parsed = ReturnNone
    /\ ppc = "unused"
    /\ IdleRequest
    /\ IdleStore
    /\ boot = Boot("makedirs", "none", {}, "none", <<>>, 0, 0)
    /\ callers = Unused
    /\ built = Unused
    /\ poll = Unused
    /\ crawl = Unused

beyondBoot == <<parseVars, requestVars, storeVars, callers, built, poll, crawl>>

\* l.18-19: os.makedirs(db_path, exist_ok=True), outside every try
MakeDirs ==
    /\ boot.pc = "makedirs"
    /\ \E fails \in BOOLEAN :
        boot' = IF fails THEN [boot EXCEPT !.pc = "raised", !.cause = "makedirs"]
                ELSE [boot EXCEPT !.pc = "basic"]
    /\ UNCHANGED beyondBoot

\* l.27-30: chromadb.PersistentClient(path=db_path)
OpenPersistent ==
    /\ boot.pc = "basic"
    /\ \E fails \in BOOLEAN :
        boot' = IF fails THEN [boot EXCEPT !.pc = "unique", !.failed = @ \cup {"basic"}]
                ELSE [boot EXCEPT !.pc = "collections", !.mode = "persistent"]
    /\ UNCHANGED beyondBoot

\* l.35-40: os.makedirs(persist_directory); chromadb.PersistentClient(path=persist_directory)
OpenUnique ==
    /\ boot.pc = "unique"
    /\ \E fails \in BOOLEAN :
        boot' = IF fails THEN [boot EXCEPT !.pc = "ephemeral", !.failed = @ \cup {"unique"}]
                ELSE [boot EXCEPT !.pc = "collections", !.mode = "unique path"]
    /\ UNCHANGED beyondBoot

\* l.44-47: chromadb.EphemeralClient(); a failure reaches the outer except, l.54-56
OpenEphemeral ==
    /\ boot.pc = "ephemeral"
    /\ \E fails \in BOOLEAN :
        boot' = IF fails THEN [boot EXCEPT !.pc = "raised", !.cause = "ephemeral"]
                ELSE [boot EXCEPT !.pc = "collections", !.mode = "memory"]
    /\ UNCHANGED beyondBoot

\* faulty variant: one more failure is tolerated before raising
GivesUp_Late(retry_count) == retry_count > MaxRetries

\* l.79: if retry_count >= max_retries: raise
GivesUp(retry_count) == retry_count >= MaxRetries

\* l.63: while retry_count < max_retries
LoopsAgain(retry_count) == retry_count < MaxRetries

\* what __init__ does with the value _get_or_create_collection returned, l.50-53
AfterCollection(b, coll) ==
    LET held == Append(b.held, coll)
    IN  [b EXCEPT !.held = held,
                  !.retry_count = 0,
                  !.attempts = 0,
                  !.pc = IF Len(held) = Len(CollectionNames) THEN "done" ELSE "collections"]

\* one turn of the loop of _get_or_create_collection, l.63-83
CollectionAttempt ==
    /\ boot.pc = "collections"
    /\ \E getOk \in BOOLEAN, createOk \in BOOLEAN :
        LET name == CollectionNames[Len(boot.held) + 1]
            tried == [boot EXCEPT !.attempts = @ + 1]
            retry_count == boot.retry_count + 1
        IN  boot' =
              IF getOk THEN AfterCollection(tried, Collection(name, "get", boot.retry_count))
              ELSE IF createOk
              THEN AfterCollection(tried, Collection(name, "create", boot.retry_count))
              ELSE IF GivesUp(retry_count)
              THEN [tried EXCEPT !.retry_count = retry_count, !.pc = "raised",
                                 !.cause = "collection"]                       \* l.81, l.54-56
              ELSE IF LoopsAgain(retry_count)
              THEN [tried EXCEPT !.retry_count = retry_count]                  \* l.82-83
              ELSE AfterCollection([tried EXCEPT !.retry_count = retry_count],
                                   Collection(name, "none", retry_count))     \* falls out of the loop
    /\ UNCHANGED beyondBoot

NextBoot ==
    \/ MakeDirs
    \/ OpenPersistent
    \/ OpenUnique
    \/ OpenEphemeral
    \/ CollectionAttempt

SpecBoot == InitBoot /\ [][NextBoot]_vars

(***************************************************************************)
(* FirecrawlWrapper._poll_search_results / _poll_scrape_results            *)
(*                                                                         *)
(* One GET per turn of `for attempt in range(max_attempts)`.  A reply is   *)
(* what the turn sees: requests.get or raise_for_status raising a          *)
(* RequestException, or the JSON object's status, with or without its      *)
(* payload key ("results" for a search, "content" for a scrape).  Sleep    *)
(* times are in seconds.                                                   *)
(***************************************************************************)
MaxAttempts == 3
BackoffFactors == {1, 2}

PollKinds == {"search", "scrape"}

Reply(raises, status, hasPayload) ==
    [raises |-> raises, status |-> status, hasPayload |-> hasPayload]

Unpolled == Reply(FALSE, "unpolled", FALSE)

\* status "none": the object has no "status" key, data.get("status") is None
Replies ==
    {Reply(TRUE, "none", FALSE)}
        \cup {Reply(FALSE, st, h) : st \in {"completed", "failed", "processing", "none"},
                                    h \in BOOLEAN}

\* data["results"] / data["content"]
Payload(kind) == IF kind = "search" THEN "results" ELSE "content"

\* data.get("results", []) / data.get("content", {})
PayloadOf(kind, reply) ==
    IF reply.hasPayload THEN Payload(kind)
    ELSE IF kind = "search" THEN "[]" ELSE "{}"

\* return [] / return None
Nothing(kind) == IF kind = "search" THEN "[]" ELSE "None"

RECURSIVE Pow(_, _)
Pow(b, e) == IF e = 0 THEN 1 ELSE b * Pow(b, e - 1)

\* faulty variant: one turn too many
MorePolls_Inclusive(attempt, max_attempts) == attempt <= max_attempts

\* for attempt in range(max_attempts)
MorePolls(attempt, max_attempts) == attempt < max_attempts

Polling(kind, max_attempts, backoff_factor) ==
    [pc |-> "loop", kind |-> kind, max_attempts |-> max_attempts,
     backoff_factor |-> backoff_factor, attempt |-> 0, polls |-> 0, slept |-> 0,
     last |-> Unpolled, result |-> "unset"]

InitPoll ==
    /\ response = NoneText
    /\ parsed = ReturnNone
    /\ ppc = "unused"
    /\ IdleRequest
    /\ IdleStore
    /\ callers = Unused
    /\ built = Unused
    /\ boot = Unused
    /\ poll \in {Polling(k, m, b) : k \in PollKinds, m \in 0..MaxAttempts, b \in BackoffFactors}
    /\ crawl = Unused

beyondPoll == <<parseVars, requestVars, storeVars, callers, built, boot, crawl>>

\* the function returns from inside the loop, after this turn's GET
ReturnFromPoll(p, reply, value) ==
    [p EXCEPT !.pc = "returned", !.polls = @ + 1, !.last = reply, !.result = value]

\* one turn of the loop
PollTurn(p, reply) ==
    IF reply.raises THEN ReturnFromPoll(p, reply, Nothing(p.kind))
    ELSE IF reply.status = "completed" THEN ReturnFromPoll(p, reply, PayloadOf(p.kind, reply))
    ELSE IF reply.status = "failed" THEN ReturnFromPoll(p, reply, Nothing(p.kind))
    ELSE [p EXCEPT !.attempt = @ + 1, !.polls = @ + 1, !.last = reply,
                   !.slept = @ + Pow(p.backoff_factor, p.attempt)]

Poll ==
    /\ poll.pc = "loop"
    /\ MorePolls(poll.attempt, poll.max_attempts)
    /\ \E reply \in Replies : poll' = PollTurn(poll, reply)
    /\ UNCHANGED beyondPoll

\* the range is used up: the warning, then return [] / return None
PollExhausted ==
    /\ poll.pc = "loop"
    /\ ~MorePolls(poll.attempt, poll.max_attempts)
    /\ poll' = [poll EXCEPT !.pc = "returned", !.result = Nothing(poll.kind)]
    /\ UNCHANGED beyondPoll

NextPoll ==
    \/ Poll
    \/ PollExhausted

\* every GET returns or raises: the loop is never left waiting
SpecPoll == InitPoll /\ [][NextPoll]_vars /\ WF_vars(NextPoll)

(***************************************************************************)
(* TenderAPIWrapper.search_tenders                                         *)
(*                                                                         *)
(* self.crawlers holds a crawler per api key given at construction.  A     *)
(* crawler's search returns at most the number of tenders it was asked     *)
(* for, or raises.  A tender is its source and its publication_date, a     *)
(* day number, or None (EUTenderCrawler._parse_tender_data stores          *)
(* notice.get("publicationDate")).                                         *)
(***************************************************************************)
MaxResults == 2

SourceNames == {"eu_ted", "swiss", "other"}
CrawlerKeys == <<"eu_ted", "swiss">>          \* insertion order of self.crawlers
NoneDate == 0                                 \* publication_date is None
PubDates == {NoneDate, 1, 2}

Tender(source, publication_date) == [source |-> source, publication_date |-> publication_date]

SeqsUpTo(S, n) == UNION {[1..k -> S] : k \in 0..n}

\* list(self.crawlers.keys())
Keys(configured) == SelectSeq(CrawlerKeys, LAMBDA k : k \in configured)

\* max(1, max_results // len(sources)); None when the division raises
ResultsPerSource(max_results, sources) ==
    IF Len(sources) = 0 THEN [raised |-> TRUE, n |-> 0]
    ELSE LET q == max_results \div Len(sources)
         IN  [raised |-> FALSE, n |-> IF q > 1 THEN q ELSE 1]

\* all_tenders.sort(key=lambda x: x.get("publication_date", ""), reverse=True):
\* comparing None with anything raises TypeError, and every element of a list
\* of two or more is compared
SortByDateRaises(ts) ==
    Len(ts) >= 2 /\ \E i \in 1..Len(ts) : ts[i].publication_date = NoneDate

SortByDate(ts) ==
    Unkey(SortKeyed([i \in 1..Len(ts) |-> [key |-> ts[i].publication_date, e |-> ts[i]]], TRUE))

Crawl(configured, sources, max_results) ==
    [pc |-> "called", configured |-> configured, sources |-> sources,
     max_results |-> max_results, results_per_source |-> 0, i |-> 1,
     all_tenders |-> <<>>, asked |-> {}, failed |-> {}, result |-> <<>>, error |-> "none"]

InitCrawl ==
    /\ response = NoneText
    /\ parsed = ReturnNone
    /\ ppc = "unused"
    /\ IdleRequest
    /\ IdleStore
    /\ callers = Unused
    /\ built = Unused
    /\ boot = Unused
    /\ poll = Unused
    /\ crawl \in {Crawl(c, src, m) : c \in SUBSET {"eu_ted", "swiss"},
                                     src \in SeqsUpTo(SourceNames, 2),
                                     m \in 0..MaxResults}

beyondCrawl == <<parseVars, requestVars, storeVars, callers, built, boot, poll>>

\* l.426-429: the default sources and the share of each source
SearchTendersEnter ==
    /\ crawl.pc = "called"
    /\ LET sources == IF Len(crawl.sources) = 0 THEN Keys(crawl.configured)
                      ELSE crawl.sources
           share   == ResultsPerSource(crawl.max_results, sources)
       IN  crawl' = IF share.raised
                    THEN [crawl EXCEPT !.pc = "raised", !.sources = sources,
                                       !.error = "ZeroDivisionError"]
                    ELSE [crawl EXCEPT !.pc = "loop", !.sources = sources,
                                       !.results_per_source = share.n]
    /\ UNCHANGED beyondCrawl

\* l.431-441: one turn of `for source in sources`
SearchSource ==
    /\ crawl.pc = "loop"
    /\ crawl.i <= Len(crawl.sources)
    /\ LET source == crawl.sources[crawl.i]
       IN  IF source \notin crawl.configured
           THEN crawl' = [crawl EXCEPT !.i = @ + 1]
           ELSE \E raises \in BOOLEAN, dates \in SeqsUpTo(PubDates, crawl.results_per_source) :
                  crawl' = IF raises
                           THEN [crawl EXCEPT !.i = @ + 1, !.asked = @ \cup {source},
                                              !.failed = @ \cup {source}]
                           ELSE [crawl EXCEPT !.i = @ + 1, !.asked = @ \cup {source},
                                              !.all_tenders = @ \o
                                                  [k \in 1..Len(dates) |-> Tender(source, dates[k])]]
    /\ UNCHANGED beyondCrawl

\* l.444-449: the sort and the slice
SearchTendersReturn ==
    /\ crawl.pc = "loop"
    /\ crawl.i > Len(crawl.sources)
    /\ crawl' = IF SortByDateRaises(crawl.all_tenders)
                THEN [crawl EXCEPT !.pc = "raised", !.error = "TypeError"]
                ELSE [crawl EXCEPT !.pc = "returned",
                                   !.result = Take(SortByDate(crawl.all_tenders), crawl.max_results)]
    /\ UNCHANGED beyondCrawl

NextCrawl ==
    \/ SearchTendersEnter
    \/ SearchSource
    \/ SearchTendersReturn

SpecCrawl == InitCrawl /\ [][NextCrawl]_vars

(***************************************************************************)
(* Concurrent adds                                                         *)
(*                                                                         *)
(* Two callers add to one store at the same time.  An add keeps everything *)
(* it computes in locals of the call (the text, the embedding, the         *)
(* document) and touches the store in one backend call, create_item or     *)
(* collection.add, which the backend applies as a whole: the calls of two  *)
(* callers interleave between preparing the document and writing it.       *)
(***************************************************************************)
Callers == {1, 2}

Caller(pc_, id, data, document, outcome) ==
    [pc |-> pc_, id |-> id, data |-> data, document |-> document, outcome |-> outcome]

InitConc ==
    /\ response = NoneText
    /\ parsed = ReturnNone
    /\ ppc = "unused"
    /\ IdleRequest
    /\ backend \in {"cosmos", "chroma"}
    /\ store = EmptyStore("tenders")
    /\ sop = NoOp
    /\ callers \in [Callers -> {Caller("called", id, IF backend = "cosmos" THEN WithId(kind, id) ELSE kind,
                                       NoRecord, "none") :
                                    id \in StoreIds, kind \in DataKinds}]
    /\ built = Unused
    /\ boot = Unused
    /\ poll = Unused
    /\ crawl = Unused

beyondConc == <<backend, sop, parseVars, requestVars, built, boot, poll, crawl>>

\* cosmos_vector_store.py l.85-106: the text, the embedding, the document
CosmosPrepare(c) ==
    /\ backend = "cosmos"
    /\ callers[c].pc = "called"
    /\ \E embedFails \in BOOLEAN :
        LET data      == callers[c].data
            embedding == GenerateEmbedding(CosmosEmbeddingText(data), embedFails)
        IN  callers' = [callers EXCEPT ![c] = Caller("prepared", DocumentId(data, @.id), data,
                                                      Rec(data, embedding), "none")]
    /\ UNCHANGED <<store, beyondConc>>

\* cosmos_vector_store.py l.109-116: create_item, then return or re-raise
CosmosWrite(c) ==
    /\ backend = "cosmos"
    /\ callers[c].pc = "prepared"
    /\ \E writeFails \in BOOLEAN :
        LET created == CreateItem(store.items, callers[c].id, callers[c].document, writeFails)
        IN  /\ store' = [store EXCEPT !.items = created.items]
            /\ callers' = [callers EXCEPT ![c].pc = "returned",
                                          ![c].outcome = IF created.raised THEN "raised" ELSE "id"]
    /\ UNCHANGED beyondConc

\* chromadb_store.py l.113-117: the text and the embeddings
ChromaPrepare(c) ==
    /\ backend = "chroma"
    /\ callers[c].pc = "called"
    /\ \E supplied \in BOOLEAN, sourceGiven \in BOOLEAN, embedFails \in BOOLEAN :
        LET data == callers[c].data
        IN  callers' =
              IF ~supplied /\ ~sourceGiven
              THEN [callers EXCEPT ![c].pc = "returned", ![c].outcome = "False"]   \* ValueError
              ELSE [callers EXCEPT ![c] =
                      Caller("prepared", @.id, data,
                             Rec(data, IF supplied THEN CallerVector
                                       ELSE GetEmbeddingSafe(ChromaText(data), embedFails)),
                             "none")]
    /\ UNCHANGED <<store, beyondConc>>

\* chromadb_store.py l.119-134: collection.add, then True or False
ChromaWrite(c) ==
    /\ backend = "chroma"
    /\ callers[c].pc = "prepared"
    /\ \E writeFails \in BOOLEAN, dupRaises \in BOOLEAN :
        LET added == CollectionAdd(store.items, callers[c].id, callers[c].document,
                                   writeFails, dupRaises)
        IN  /\ store' = [store EXCEPT !.items = added.items]
            /\ callers' = [callers EXCEPT ![c].pc = "returned",
                                          ![c].outcome = IF added.raised THEN "False" ELSE "True"]
    /\ UNCHANGED beyondConc

NextConc ==
    \E c \in Callers :
        \/ CosmosPrepare(c)
        \/ CosmosWrite(c)
        \/ ChromaPrepare(c)
        \/ ChromaWrite(c)

SpecConc == InitConc /\ [][NextConc]_vars

(***************************************************************************)
(* Parser claims                                                           *)
(***************************************************************************)
\* the text between the first "{" and the last "}"
Braced(text) ==
    IF Contains(text, LBRACE) /\ Contains(text, RBRACE)
    THEN Slice(text, Find(text, LBRACE), RFind(text, RBRACE) + 1)
    ELSE <<>>

\* no braces, or the text between the first "{" and the last "}" is not valid JSON
NoParseableJson(text) ==
    \/ ~Contains(text, LBRACE)
    \/ ~Contains(text, RBRACE)
    \/ JsonLoads(Braced(text)) = "JSONDecodeError"

\* C2: when the raw response holds no parseable JSON object, the Azure parser
\* returns match_score 0.5, the raw response verbatim as reasoning, and empty
\* key_strengths and potential_challenges lists.
C2_FallbackOnUnparseable ==
    (ppc = "azure" /\ ~response.isNone /\ NoParseableJson(response.text)) =>
        /\ parsed.kind = "analysis"
        /\ parsed.a.match_score = Num(5)
        /\ parsed.a.reasoning = RawText(response.text)
        /\ parsed.a.key_strengths = EmptyList
        /\ parsed.a.potential_challenges = EmptyList

C2_Witness ==
    /\ ppc = "azure"
    /\ response = Text(<<LBRACE, MS(8), PROSE, RBRACE>>)
    /\ parsed.a.match_score = Num(5)
    /\ parsed.a.reasoning = RawText(<<LBRACE, MS(8), PROSE, RBRACE>>)

C4_AlwaysWellFormed ==
    (ppc = "azure" /\ ~response.isNone) =>
        /\ parsed.kind = "analysis"
        /\ parsed.a.match_score.ty = "num"
        /\ parsed.a.reasoning # Absent
        /\ parsed.a.key_strengths # Absent
        /\ parsed.a.potential_challenges # Absent
        /\ parsed.a.recommendation # Absent

\* C5: every match_score a parser returns lies in [0.0, 1.0].
C5_ScoreInUnitRange ==
    (ppc \in {"azure", "local"} /\ parsed.kind = "analysis"
        /\ parsed.a.match_score.ty = "num") =>
        (0 <= parsed.a.match_score.n /\ parsed.a.match_score.n <= 10)

(***************************************************************************)
(* Request claims                                                          *)
(***************************************************************************)
IsAzure == req.kind \in AzureKinds

InResult(c) == \E k \in 1..Len(result) : result[k].cand = c

SortedByScore(res) ==
    \A i \in 1..Len(res) : \A j \in (i + 1)..Len(res) : Score(res[i]) >= Score(res[j])

\* the analysis of the candidate failed: the call raised, or no analysis came back
AnalysisFailed(c) == c.llm.raises \/ AnalyzeMatch(c).kind = "None"

\* the analysis of the candidate came back with a numeric score above 0.3
Passing(c) ==
    /\ ~AnalysisFailed(c)
    /\ AnalyzeMatch(c).a.match_score.ty = "num"
    /\ AnalyzeMatch(c).a.match_score.n > 3

ScoreOf(c) == AnalyzeMatch(c).a.match_score.n

LocalFailed(t) == t.llm.raises \/ LocalAnalyzeTender(t).kind = "None"

\* C1: a request does not raise because analyses fail, and skips exactly the
\* candidates whose analysis raised or returned nothing: every other analysed
\* candidate above the threshold is in the result, which is in score order.
\* In the local stack the loop collects exactly the tenders whose analysis
\* did not fail, in their order.
C1_FailedCandidatesSkipped ==
    /\ (pc = "done" /\ IsAzure) =>
          /\ ~raised
          /\ SortedByScore(result)
          /\ \A i \in 1..Min(req.max, Len(candidates)) :
                /\ AnalysisFailed(candidates[i]) => ~InResult(candidates[i])
                /\ Passing(candidates[i]) =>
                      \E k \in 1..Len(result) :
                          /\ result[k].cand = candidates[i]
                          /\ result[k].analysis = AnalyzeMatch(candidates[i]).a
    /\ (pc = "local_loop") =>
          /\ ~raised
          /\ [k \in 1..Len(recommendations) |-> recommendations[k].cand]
                = SelectSeq(SubSeq(candidates, 1, idx), LAMBDA t : ~LocalFailed(t))

C1_Witness ==
    /\ pc = "done"
    /\ IsAzure
    /\ \E i, j \in 1..Min(req.max, Len(candidates)) :
          /\ i < j
          /\ candidates[i].llm.raises
          /\ InResult(candidates[j])

C7_TiesBySimilarity ==
    (pc = "done" /\ IsAzure) =>
        \A i \in 1..Len(result) : \A j \in (i + 1)..Len(result) :
            Score(result[i]) = Score(result[j]) =>
                result[i].vector_similarity >= result[j].vector_similarity

C7_Witness ==
    /\ pc = "done"
    /\ IsAzure
    /\ \E i, j \in 1..Len(result) :
          /\ i < j
          /\ Score(result[i]) = Score(result[j])
          /\ result[i].vector_similarity > result[j].vector_similarity

\* C8: every retrieved candidate is analysed before the list is cut: a
\* retrieved candidate ranked after position max still is in the result when
\* its analysis passes the threshold and fewer than max other candidates pass
\* with a score at least as good.
C8_AllRetrievedAnalysed ==
    (pc = "done" /\ IsAzure) =>
        \A j \in 1..Len(candidates) :
            (/\ j > req.max
             /\ Passing(candidates[j])
             /\ Cardinality({i \in 1..Len(candidates) :
                    /\ i # j
                    /\ Passing(candidates[i])
                    /\ ScoreOf(candidates[i]) >= ScoreOf(candidates[j])}) < req.max)
            => InResult(candidates[j])

\* C9: a request returns at most max entries.
C9_AtMostMaxResults ==
    (pc = "done") => Len(result) <= req.max

C9_Witness ==
    /\ pc = "done"
    /\ IsAzure
    /\ req.max >= 1
    /\ Len(result) = req.max
    /\ Len(candidates) > req.max
    /\ Passing(candidates[req.max + 1])

\* C10: every entry an Azure request returns has match_score > 0.3, an analysis
\* scoring 0.3 or less is dropped by the request, and the analyzer itself
\* returns an analysis whatever its score.
C10_RelevanceFloor ==
    (pc = "done" /\ IsAzure) =>
        /\ \A k \in 1..Len(result) :
              result[k].analysis.match_score.ty = "num" /\ Score(result[k]) > 3
        /\ \A i \in 1..Len(candidates) :
              LET c == candidates[i]
                  obj == Braced(c.llm.content.text)
              IN  (/\ ~c.llm.raises
                   /\ ~c.llm.content.isNone
                   /\ JsonLoads(obj) = "ok"
                   /\ HasKey(obj, "reasoning")
                   /\ HasKey(obj, "match_score")
                   /\ GetKey(obj, "match_score").ty = "num")
                  => /\ AnalyzeMatch(c).kind = "analysis"
                     /\ AnalyzeMatch(c).a.match_score = GetKey(obj, "match_score")
                     /\ GetKey(obj, "match_score").n <= 3 => ~InResult(c)

C10_Witness ==
    /\ pc = "done"
    /\ IsAzure
    /\ Len(result) >= 1
    /\ \E i \in 1..Min(req.max, Len(candidates)) :
          /\ AnalyzeMatch(candidates[i]).kind = "analysis"
          /\ AnalyzeMatch(candidates[i]).a.match_score = Num(3)
          /\ ~InResult(candidates[i])

(***************************************************************************)
(* Claims on the local request's filters                                   *)
(***************************************************************************)
IsLocal == req.kind = "local"

\* the tender's analysis came back with a score of at least min_score
LocalPassing(t) ==
    /\ ~LocalFailed(t)
    /\ LocalAnalyzeTender(t).a.match_score.n >= req.min_score

IsPast(t) == t.deadline.ty = "date" /\ t.deadline.t < current_date

\* C11: every entry get_recommendations returns has match_score >= min_score,
\* and an analysed tender whose score is at least min_score, one scoring
\* exactly min_score included, is returned unless the list is cut at
\* max_results.
C11_MinScoreFloor ==
    (pc = "done" /\ IsLocal /\ ~raised) =>
        /\ \A k \in 1..Len(result) : Score(result[k]) >= req.min_score
        /\ Len(result) < req.max =>
              \A i \in 1..Len(recommendations) :
                  Score(recommendations[i]) >= req.min_score =>
                      \E k \in 1..Len(result) : result[k] = recommendations[i]

C11_Witness ==
    /\ pc = "done"
    /\ IsLocal
    /\ ~raised
    /\ \E k \in 1..Len(result) : Score(result[k]) = req.min_score
    /\ \E i \in 1..Len(recommendations) : Score(recommendations[i]) < req.min_score

\* C12: with filter_expired set, no tender whose deadline is in the past is
\* returned; with filter_expired unset every queried tender is analysed, and
\* a tender whose analysis reaches min_score is returned whatever its
\* deadline, unless the list is cut at max_results.
C12_ExpiredFilter ==
    (pc = "done" /\ IsLocal) =>
        /\ req.filter_expired =>
              \A i \in 1..Len(tenders) : IsPast(tenders[i]) => ~InResult(tenders[i])
        /\ ~req.filter_expired => candidates = tenders
        /\ (~req.filter_expired /\ ~raised /\ Len(result) < req.max) =>
              \A i \in 1..Len(tenders) : LocalPassing(tenders[i]) => InResult(tenders[i])

C12_Witness ==
    /\ pc = "done"
    /\ IsLocal
    /\ req.filter_expired
    /\ ~raised
    /\ Len(result) >= 1
    /\ \E i \in 1..Len(tenders) : IsPast(tenders[i]) /\ LocalPassing(tenders[i])

\* C13: with filter_expired set, a tender without a deadline (no field, or an
\* empty one) is kept: it is returned when its analysis reaches min_score,
\* unless the list is cut at max_results.
C13_NoDeadlineKept ==
    (pc = "done" /\ IsLocal /\ req.filter_expired /\ ~raised /\ Len(result) < req.max) =>
        \A i \in 1..Len(tenders) :
            (tenders[i].deadline.ty = "absent" /\ LocalPassing(tenders[i]))
                => InResult(tenders[i])

\* C14: a missing or malformed deadline never makes get_recommendations raise.
C14_DeadlineNeverRaises ==
    IsLocal => ~raised

(***************************************************************************)
(* Store claims                                                            *)
(***************************************************************************)
AddSucceeded == sop.outcome \in {"id", "True"}

\* the embeddings an add of this data can store without an embedding failure
FreshEmbeddings(data) ==
    {Vec(CosmosEmbeddingText(data)), Vec(ChromaText(data)), CallerVector}

\* C15: adding a record under an id that already holds a record with another
\* description succeeds, and leaves under that id the new description with an
\* embedding generated from the new text.
C15_UpsertIdempotent ==
    (/\ sop.op = "add"
     /\ sop.prior # NoData
     /\ sop.prior # sop.data
     /\ ~sop.faulted
     /\ ~sop.embedFailed) =>
        /\ AddSucceeded
        /\ store.items[sop.id].data = sop.data
        /\ store.items[sop.id].embedding \in FreshEmbeddings(sop.data)

\* C16: when embedding generation fails during an add, the add reports a
\* failure to its caller, or (after a retry) the record it stored holds a
\* generated embedding: it never reports success with the zero vector stored.
C16_NoZeroVectorStored ==
    (sop.op = "add" /\ sop.embedFailed) =>
        \/ ~AddSucceeded
        \/ store.items[sop.id].embedding # ZeroVector

\* C17: a completion call that fails is tried again before its candidate is
\* skipped: a finished request that had a failing call has issued more calls
\* than it analysed candidates, did not raise because of it, and does not
\* return the candidate.
C17_RetriedBeforeDegrading ==
    (pc = "done" /\ \E i \in 1..idx : candidates[i].llm.raises) =>
        /\ calls > idx
        /\ \A i \in 1..idx : candidates[i].llm.raises => ~InResult(candidates[i])

\* C18: looking up an id the store does not hold returns None without raising,
\* in both stores, and a lookup leaves the store as it was.
C18_MissingLookupIsNone ==
    /\ [](sop.op = "get" /\ sop.prior = NoData =>
            sop.outcome = "None" /\ sop.item = NoData)
    /\ [][sop'.op = "get" => store' = store]_vars

C18_Witness ==
    /\ sop.op = "get"
    /\ sop.prior = NoData
    /\ ~sop.faulted
    /\ sop.outcome = "None"
    /\ \E i \in StoreIds : store.items[i].present

C24_MissingTitleRejected ==
    /\ (sop.op = "add" /\ sop.data.title = NoKey) => ~AddSucceeded
    /\ \A i \in StoreIds : store.items[i].present =>
          /\ store.items[i].data.title # NoKey
          /\ store.items[i].title # ""

\* C25: a successful add in the Cosmos store returns the record's own id when
\* the record carries one and otherwise an id the container did not hold
\* before, a lookup by the returned id yields the record whose data is exactly
\* the data that was added, and every lookup that finds a record returns the
\* data stored under the id it asked for.
C25_AddThenGetRoundTrips ==
    /\ (backend = "cosmos" /\ sop.op = "add" /\ sop.outcome = "id") =>
          /\ sop.data.id # NoKey => sop.id = sop.data.id
          /\ sop.data.id = NoKey => sop.prior = NoData
          /\ ReadItem(store.items, sop.id, FALSE) = [outcome |-> "item", item |-> sop.data]
    /\ (sop.op = "get" /\ sop.outcome = "item") =>
          /\ sop.item = store.items[sop.id].data
          /\ backend = "cosmos" => Get(sop.item.id, sop.id) = sop.id

C25_Witness ==
    /\ backend = "cosmos"
    /\ sop.op = "get"
    /\ sop.outcome = "item"
    /\ sop.item.id = NoKey
    /\ \E j \in StoreIds \ {sop.id} :
          store.items[j].present /\ store.items[j].data.id = j

\* C22: when the candidate search returns no candidates the request returns
\* an empty list, does not raise, and has issued no completion call.
C22_NoCandidatesEmptyResult ==
    (pc = "done" /\ candidates = <<>>) =>
        /\ result = <<>>
        /\ ~raised
        /\ calls = 0

C22_Witness ==
    /\ pc = "done"
    /\ IsAzure
    /\ req.max >= 1
    /\ candidates = <<>>
    /\ result = <<>>
    /\ calls = 0

(***************************************************************************)
(* Text construction claims                                                *)
(***************************************************************************)
\* C21: the text embedded when a record is added equals the query text built
\* from the same record when it is the subject of a recommendation request.
C21_QueryTextIsIndexText ==
    (built.pc = "queried") => built.query_text = built.index_text

(***************************************************************************)
(* Polling claims                                                          *)
(***************************************************************************)
TerminalReply(reply) == reply.raises \/ reply.status \in {"completed", "failed"}

C30_SearchReturnsNormally ==
    /\ crawl.pc # "raised"
    /\ crawl.pc = "returned" =>
          /\ Len(crawl.result) <= crawl.max_results
          /\ \A k \in 1..Len(crawl.sources) :
                crawl.sources[k] \in crawl.configured => crawl.sources[k] \in crawl.asked

(***************************************************************************)
(* Concurrency claims                                                      *)
(***************************************************************************)
\* the document's fields belong together: the denormalized title is the
\* data's, and a generated embedding is the embedding of the data's text
Coherent(rec) ==
    /\ rec.title = Get(rec.data.title, "")
    /\ rec.embedding \in {ZeroVector} \cup FreshEmbeddings(rec.data)

\* C27: in every state of every interleaving of two adds, the record held
\* under an id is, as a whole, the document one of the callers prepared for
\* that id and wrote, and its fields belong together; a record never has
\* fields of two adds.
C27_RecordFromOneUpsert ==
    \A i \in StoreIds : store.items[i].present =>
        /\ Coherent(store.items[i])
        /\ \E c \in Callers :
              /\ callers[c].pc = "returned"
              /\ callers[c].id = i
              /\ callers[c].outcome \in {"id", "True"}
              /\ callers[c].document = store.items[i]

C27_Witness ==
    /\ callers[1].pc = "returned"
    /\ callers[2].pc = "returned"
    /\ callers[1].id = callers[2].id
    /\ callers[1].data.description # callers[2].data.description
    /\ callers[1].document.embedding.kind = "embedded"
    /\ callers[2].document.embedding.kind = "embedded"
    /\ callers[1].outcome = "raised"
    /\ callers[2].outcome = "id"
    /\ store.items[callers[2].id] = callers[2].document

(***************************************************************************)
(* Construction claims                                                     *)
(***************************************************************************)
\* C23: construction does not fail because the persistent backend cannot be
\* opened (it fails only when the in-memory client or a collection cannot be
\* had), and it runs in memory only after both persistent attempts failed.
C23_FallbackNeverFails ==
    /\ boot.pc = "raised" => boot.cause \in {"ephemeral", "collection"}
    /\ boot.mode = "memory" => boot.failed = {"basic", "unique"}

\* C29: _get_or_create_collection makes at most 3 attempts; it tries again
\* only while fewer than 3 attempts have failed; it returns the collection of
\* the first attempt whose get or create succeeds; it raises after the third
\* failed attempt; it never returns without a collection.
C29_CollectionWithinThreeAttempts ==
    /\ boot.attempts <= 3
    /\ boot.pc = "collections" => (boot.retry_count = boot.attempts /\ boot.attempts < 3)
    /\ \A k \in 1..Len(boot.held) :
          /\ boot.held[k].via \in {"get", "create"}
          /\ boot.held[k].failures <= 2
    /\ (boot.pc = "raised" /\ boot.cause = "collection") =>
          (boot.retry_count = 3 /\ boot.attempts = 3)

C29_Witness ==
    /\ boot.pc = "done"
    /\ boot.held[1].failures = 2
    /\ boot.held[1].via = "create"
    /\ boot.held[2].failures = 0

====
